---- MODULE Spec2Model ----
(***************************************************************************)
(* Adaptive-testing service of cat_service_api.py: the two request         *)
(* handlers next_question and submit_assignment over the tables            *)
(* UserAbilities, CAT_Logs and CAT_Results, with the IRT helpers they use. *)
(*                                                                         *)
(* Real numbers are fixed point: theta and the difficulty b in             *)
(* thousandths, the guessing parameter c in thousandths, the               *)
(* discrimination a and smoothing_alpha in tenths.                         *)
(***************************************************************************)
EXTENDS Integers, Sequences, FiniteSets, TLC

\* Thetas are carried in thousandths, the resolution of the handlers' round(x, 3).
Scale == 1000

\* Longest answered_questions / responses list a request of Spec carries.
MaxLen == 2

ThetaMin == (0 - 4) * Scale
ThetaMax == 4 * Scale

Procs == {1, 2}

\* (UserId, CourseId) pairs
Pairs == {1, 2}

\* A NULL column value; a non-NULL value v is <<v>>.
NoParam == <<>>

Range(s) == {s[i] : i \in 1..Len(s)}

\* [x for x in s if x in keep]
RECURSIVE SelectIn(_, _)
SelectIn(s, keep) ==
    IF s = <<>> THEN <<>>
    ELSE LET rest == SelectIn(Tail(s), keep)
         IN IF Head(s) \in keep THEN <<Head(s)>> \o rest ELSE rest

\* Sequences over S of length at most n
SeqUpTo(S, n) == UNION {[1..k -> S] : k \in 0..n}

----------------------------------------------------------------------------
(* The question bank: rows of dbo.McqQuestions.                            *)

\* Two eligible items and one item without parameters in assignment "A";
\* assignment "B" has only an item without parameters.
SmallBank ==
    << [Id |-> 1, AssignmentId |-> "A", ParamA |-> <<10>>, ParamB |-> <<0>>,    ParamC |-> <<200>>],
       [Id |-> 2, AssignmentId |-> "A", ParamA |-> <<20>>, ParamB |-> <<1000>>, ParamC |-> <<250>>],
       [Id |-> 3, AssignmentId |-> "A", ParamA |-> NoParam, ParamB |-> NoParam, ParamC |-> NoParam],
       [Id |-> 4, AssignmentId |-> "B", ParamA |-> NoParam, ParamB |-> NoParam, ParamC |-> NoParam] >>

\* Five eligible items with varied (a, b, c) in assignment "A".
FullBank ==
    << [Id |-> 1, AssignmentId |-> "A", ParamA |-> <<10>>, ParamB |-> <<0>>,      ParamC |-> <<200>>],
       [Id |-> 2, AssignmentId |-> "A", ParamA |-> <<20>>, ParamB |-> <<1000>>,   ParamC |-> <<250>>],
       [Id |-> 3, AssignmentId |-> "A", ParamA |-> <<5>>,  ParamB |-> <<0 - 2000>>, ParamC |-> <<0>>],
       [Id |-> 4, AssignmentId |-> "A", ParamA |-> <<30>>, ParamB |-> <<0 - 4000>>, ParamC |-> <<100>>],
       [Id |-> 5, AssignmentId |-> "A", ParamA |-> <<10>>, ParamB |-> <<0>>,      ParamC |-> <<200>>],
       [Id |-> 6, AssignmentId |-> "A", ParamA |-> NoParam, ParamB |-> NoParam, ParamC |-> NoParam] >>

\* SELECT ... FROM dbo.McqQuestions WHERE AssignmentId = :aid AND ParamA IS NOT NULL
\*   AND ParamB IS NOT NULL AND ParamC IS NOT NULL      (the data frame df)
RECURSIVE LoadQuestions(_, _)
LoadQuestions(bank, aid) ==
    IF bank = <<>> THEN <<>>
    ELSE LET row  == Head(bank)
             rest == LoadQuestions(Tail(bank), aid)
         IN IF /\ row.AssignmentId = aid
               /\ row.ParamA # NoParam /\ row.ParamB # NoParam /\ row.ParamC # NoParam
            THEN <<[Id |-> row.Id, ParamA |-> row.ParamA[1], ParamB |-> row.ParamB[1],
                    ParamC |-> row.ParamC[1]]>> \o rest
            ELSE rest

\* all_ids = df["Id"].tolist()
AllIds(df) == [i \in 1..Len(df) |-> df[i].Id]

\* all_ids.index(q): position of the first row with that id
IndexOf(ids, q) == CHOOSE i \in 1..Len(ids) : ids[i] = q /\ \A j \in 1..(i-1) : ids[j] # q

----------------------------------------------------------------------------
(* IRT helpers                                                             *)

\* The value passed through without clipping.
noclip(x, lo, hi) == x

\* np.clip(x, lo, hi)
clip(x, lo, hi) == IF x < lo THEN lo ELSE IF x > hi THEN hi ELSE x

\* 1000/(1 + exp(-z)) at z = 0, 1, ..., 8
LogisticKnots == <<500, 731, 881, 953, 982, 993, 998, 999, 999>>

\* Beyond |z| = 37 a double rounds 1/(1+exp(-z)) to exactly 1.0 (or, below, the
\* product with 1-c is absorbed): the saturation the guards of item_information see.
SatZ == 37 * Scale

\* 1/(1 + np.exp(-z)) in thousandths, z in thousandths: linear between the knots.
LogisticPos(z) ==
    IF z >= SatZ THEN Scale
    ELSE IF z >= 8 * Scale THEN Scale - 1
    ELSE LET k  == z \div Scale
             lo == LogisticKnots[k + 1]
             hi == LogisticKnots[k + 2]
         IN lo + ((hi - lo) * (z - k * Scale)) \div Scale

Logistic(z) == IF z >= 0 THEN LogisticPos(z) ELSE Scale - LogisticPos(0 - z)

\* c + (1 - c) / (1 + np.exp(-1.7 * a * (theta - b)))
irt_prob(a, b, c, theta) ==
    c + ((Scale - c) * Logistic((17 * a * (theta - b)) \div 100)) \div Scale

\* The information without the guards on P and Q: only 1 - c = 0 returns 0.
item_information_unguarded(item, theta) ==
    LET a == item.ParamA
        c == item.ParamC
        P == irt_prob(a, item.ParamB, c, theta)
    IN IF (Scale - c) = 0
       THEN 0
       ELSE LET t == (17 * a * (P - c)) \div (Scale - c)
            IN t * t

\* Fisher information as the code computes it, in units of 1e-4.  The factor
\* P*Q of the code's numerator and denominator cancels whenever both are
\* positive, which the guard ensures.
item_information(item, theta) ==
    LET a == item.ParamA
        b == item.ParamB
        c == item.ParamC
        P == irt_prob(a, b, c, theta)
        Q == Scale - P
    IN IF P <= 0 \/ Q <= 0 \/ (Scale - c) = 0
       THEN 0
       ELSE LET t == (17 * a * (P - c)) \div (Scale - c)
            IN t * t

\* Steps of the two fixed-step heuristics of estimate_theta (thousandths).
StepShort == 300
StepFallback == 200

\* What catsim's NumericalSearchEstimator.estimate may do: raise, or return a
\* value (which need not lie in [-4, 4]).
SearchOutcomes ==
    { [raises |-> TRUE,  value |-> 0],
      [raises |-> FALSE, value |-> 700],
      [raises |-> FALSE, value |-> 5000] }

\* The test on the first response instead of the last.
FirstIsCorrect(responses) == responses # <<>> /\ responses[1] = 1

\* responses and responses[-1] == 1
LastIsCorrect(responses) == responses # <<>> /\ responses[Len(responses)] = 1

\* The estimator without its short-history branch: the search is always tried.
estimate_theta_search_always(items, administered_items, responses, current_theta, search) ==
    IF search.raises
    THEN LET delta == IF LastIsCorrect(responses) THEN StepFallback ELSE 0 - StepFallback
         IN <<clip(current_theta + delta, ThetaMin, ThetaMax), current_theta>>
    ELSE <<clip(search.value, ThetaMin, ThetaMax), current_theta>>

\* The estimator returning the new theta in both components.
estimate_theta_new_twice(items, administered_items, responses, current_theta, search) ==
    LET new == IF Len(administered_items) <= 1
               THEN clip(current_theta + (IF LastIsCorrect(responses)
                                          THEN StepShort ELSE 0 - StepShort),
                         ThetaMin, ThetaMax)
               ELSE IF search.raises
               THEN clip(current_theta + (IF LastIsCorrect(responses)
                                          THEN StepFallback ELSE 0 - StepFallback),
                         ThetaMin, ThetaMax)
               ELSE clip(search.value, ThetaMin, ThetaMax)
    IN <<new, new>>

\* estimate_theta: <<new theta, theta_before>>; search is the outcome of the
\* numerical search, consulted only with more than one administered item.
estimate_theta(items, administered_items, responses, current_theta, search) ==
    LET theta_before == current_theta
    IN IF Len(administered_items) <= 1
       THEN LET delta == IF LastIsCorrect(responses) THEN StepShort ELSE 0 - StepShort
            IN <<clip(current_theta + delta, ThetaMin, ThetaMax), theta_before>>
       ELSE IF search.raises
       THEN LET delta == IF LastIsCorrect(responses) THEN StepFallback ELSE 0 - StepFallback
            IN <<clip(current_theta + delta, ThetaMin, ThetaMax), theta_before>>
       ELSE <<clip(search.value, ThetaMin, ThetaMax), theta_before>>

----------------------------------------------------------------------------
(* Item selection                                                          *)

TopK == 3

Perms(n) == {f \in [1..n -> 1..n] : \A i, j \in 1..n : f[i] = f[j] => i = j}

\* np.argsort(v): an index order that sorts v ascending; the order among equal
\* values is whatever the sort produces.
Argsorts(v) ==
    {p \in Perms(Len(v)) : \A i \in 1..(Len(v) - 1) : v[p[i]] <= v[p[i + 1]]}

\* s[::-1]
Reverse(s) == [i \in 1..Len(s) |-> s[Len(s) + 1 - i]]

\* The filter with only the last answered id excluded.
UnansweredButLast(df, answered_questions) ==
    SelectIn(df, {df[i] : i \in {j \in 1..Len(df) :
                     answered_questions = <<>>
                     \/ df[j].Id # answered_questions[Len(answered_questions)]}})

\* The filter that keeps only the rows still to be answered out of the pool:
\* the test inverted.
UnansweredInverted(df, answered_questions) ==
    SelectIn(df, {df[i] : i \in {j \in 1..Len(df) : df[j].Id \in Range(answered_questions)}})

\* df[~df["Id"].isin(answered_questions)].reset_index(drop=True)
Unanswered(df, answered_questions) ==
    SelectIn(df, {df[i] : i \in {j \in 1..Len(df) : df[j].Id \notin Range(answered_questions)}})

\* The whole ranking taken as top_k.
TopKOfAll(sorted_indices) == sorted_indices

\* The first of the ranking only: the argmax.
TopOneOf(sorted_indices) == SubSeq(sorted_indices, 1, 1)

\* sorted_indices[:3] if len(sorted_indices) >= 3 else sorted_indices
TopKOf(sorted_indices) ==
    IF Len(sorted_indices) >= TopK THEN SubSeq(sorted_indices, 1, TopK) ELSE sorted_indices

\* The values random.choice(top_k) can return: local indices into unanswered_df.
TopKChoices(unanswered_df, current_theta) ==
    LET info_values == [i \in 1..Len(unanswered_df) |->
                            item_information(unanswered_df[i], current_theta)]
    IN UNION { Range(TopKOf(Reverse(order))) : order \in Argsorts(info_values) }

\* The row at the local index taken from the unfiltered frame.
NextQuestionRowOfDf(df, unanswered_df, next_idx_local) == df[next_idx_local]

\* next_question_row = unanswered_df.iloc[next_idx_local]
NextQuestionRow(df, unanswered_df, next_idx_local) == unanswered_df[next_idx_local]

----------------------------------------------------------------------------
(* State                                                                   *)

VARIABLES
    McqQuestions,    \* the question bank (read only)
    UserAbilities,   \* rows [Pair, Theta] of dbo.UserAbilities
    CAT_Logs,        \* rows of dbo.CAT_Logs, in insertion order
    CAT_Results,     \* rows of dbo.CAT_Results, in insertion order
    proc             \* per request handler: position, request, locals, response

vars == <<McqQuestions, UserAbilities, CAT_Logs, CAT_Results, proc>>

NoRequest ==
    [op |-> "none", pair |-> 0, aid |-> "", answered |-> <<>>, responses |-> <<>>,
     ctheta |-> <<>>, alpha |-> <<>>]

NoResponse ==
    [status |-> 0, kind |-> "none", theta |-> 0, qid |-> 0, updated |-> 0,
     correct |-> 0, total |-> 0]

IdleProc ==
    [pc |-> "idle", req |-> NoRequest, cur |-> 0, final |-> 0, resp |-> NoResponse]

\* jsonify({"error": ...}), status
ErrorResponse(status) == [NoResponse EXCEPT !.status = status, !.kind = "error"]

\* The SELECT without its WHERE clause: the first row's Theta, whose ever it is.
SelectThetaAnyPair(tab, pair) == IF tab = <<>> THEN <<>> ELSE <<tab[1].Theta>>

\* SELECT Theta FROM dbo.UserAbilities WHERE UserId = :u AND CourseId = :c, .scalar():
\* <<>> for None, else the first matching row's Theta
SelectTheta(tab, pair) ==
    LET hits == {i \in 1..Len(tab) : tab[i].Pair = pair}
    IN IF hits = {} THEN <<>>
       ELSE <<tab[CHOOSE i \in hits : \A j \in hits : i <= j].Theta>>

\* The table without the unique index: no insert is rejected.
NoUniqueIndex(tab, pair) == FALSE

\* The unique index UQ_UserAbilities(UserId, CourseId) rejects this insert.
UniqueViolation(tab, pair) == \E i \in 1..Len(tab) : tab[i].Pair = pair

\* UPDATE dbo.UserAbilities SET Theta = :t WHERE UserId = :u AND CourseId = :c
UpdateTheta(tab, pair, t) ==
    [i \in 1..Len(tab) |-> IF tab[i].Pair = pair THEN [tab[i] EXCEPT !.Theta = t] ELSE tab[i]]

\* An UPDATE that reports no row, whatever it matched.
RowCountZero(tab, pair) == 0

\* .rowcount of that UPDATE
RowCount(tab, pair) == Cardinality({i \in 1..Len(tab) : tab[i].Pair = pair})

\* What the callers of Spec send.  A caller lists the ids it answered in
\* increasing order; id 3 has no parameters, so it matches no eligible item.
InputIds == {1, 2, 3}
AnsweredLists ==
    {s \in SeqUpTo(InputIds, MaxLen) : \A i \in 1..(Len(s) - 1) : s[i] < s[i + 1]}
ResponseLists == SeqUpTo({0, 1}, MaxLen)
LastResponses == {<<>>, <<0>>, <<1>>}
\* current_theta of the request, <<>> when absent
ClientThetas == {<<>>, <<10000>>}
\* smoothing_alpha of the request in tenths, <<>> when absent
Alphas == {<<>>, <<150>>}
RequestAssignments == {"A", "B"}
\* Both handlers of Spec serve the same pair, the case in which they share a row.
SharedPair == {1}

\* data.get("smoothing_alpha", 0.2), in tenths
DefaultAlpha == 2
AlphaOf(req) == IF req.alpha = <<>> THEN DefaultAlpha ELSE req.alpha[1]

Init ==
    /\ McqQuestions = SmallBank
    /\ UserAbilities = <<>>
    /\ CAT_Logs = <<>>
    /\ CAT_Results = <<>>
    /\ proc = [p \in Procs |-> IdleProc]

----------------------------------------------------------------------------
(* next_question                                                           *)

\* The request arrives (request.get_json and the data.get calls).
NextBegin(p, pairs) ==
    /\ proc[p].pc = "idle"
    /\ \E pair \in pairs, aid \in RequestAssignments, answered \in AnsweredLists,
          last \in LastResponses, ct \in ClientThetas :
          proc' = [proc EXCEPT ![p] =
                     [IdleProc EXCEPT !.pc = "ns_read",
                        !.req = [op |-> "next", pair |-> pair, aid |-> aid,
                                 answered |-> answered, responses |-> last,
                                 ctheta |-> ct, alpha |-> <<>>]]]
    /\ UNCHANGED <<McqQuestions, UserAbilities, CAT_Logs, CAT_Results>>

\* SELECT Theta ... .scalar() of the first transaction.  Under SQL Server's
\* default READ COMMITTED isolation the SELECT keeps no lock, so another
\* handler's INSERT or UPDATE can commit between it and this handler's INSERT.
NsRead(p) ==
    /\ proc[p].pc = "ns_read"
    /\ LET res == SelectTheta(UserAbilities, proc[p].req.pair)
       IN proc' = [proc EXCEPT ![p] =
                     IF res = <<>>
                     THEN [@ EXCEPT !.pc = "ns_insert", !.cur = 0]
                     ELSE [@ EXCEPT !.pc = "ns_step", !.cur = res[1]]]
    /\ UNCHANGED <<McqQuestions, UserAbilities, CAT_Logs, CAT_Results>>

\* The first contact as an upsert: a row found by the INSERT is reset to 0.0.
NsInsertResetting(p) ==
    /\ proc[p].pc = "ns_insert"
    /\ UserAbilities' =
          IF UniqueViolation(UserAbilities, proc[p].req.pair)
          THEN UpdateTheta(UserAbilities, proc[p].req.pair, 0)
          ELSE Append(UserAbilities, [Pair |-> proc[p].req.pair, Theta |-> 0])
    /\ proc' = [proc EXCEPT ![p] = [@ EXCEPT !.pc = "ns_step"]]
    /\ UNCHANGED <<McqQuestions, CAT_Logs, CAT_Results>>

\* INSERT INTO dbo.UserAbilities ... VALUES (:u, :c, 0.0) and the commit; a
\* duplicate key raises, and the handler's except answers 500.
NsInsert(p) ==
    /\ proc[p].pc = "ns_insert"
    /\ IF UniqueViolation(UserAbilities, proc[p].req.pair)
       THEN /\ proc' = [proc EXCEPT ![p] = [@ EXCEPT !.pc = "done", !.resp = ErrorResponse(500)]]
            /\ UNCHANGED UserAbilities
       ELSE /\ UserAbilities' = Append(UserAbilities, [Pair |-> proc[p].req.pair, Theta |-> 0])
            /\ proc' = [proc EXCEPT ![p] = [@ EXCEPT !.pc = "ns_step"]]
    /\ UNCHANGED <<McqQuestions, CAT_Logs, CAT_Results>>

\* matched = [q for q in answered_questions if q in all_ids]
\* administered_items = [all_ids.index(q) for q in matched]
Administered(all_ids, answered_questions) ==
    LET matched == SelectIn(answered_questions, Range(all_ids))
    IN [i \in 1..Len(matched) |-> IndexOf(all_ids, matched[i])]

\* The loaded theta kept whatever the client sent.
PriorThetaLoaded(req, loaded) == loaded

\* if client_theta is not None: current_theta = float(client_theta)
PriorTheta(req, loaded) == IF req.ctheta # <<>> THEN req.ctheta[1] ELSE loaded

\* The log row with the first answered id in place of the last.
LogRowOfFirstAnswered(req, theta_before, theta_after) ==
    [Pair |-> req.pair, AssignmentId |-> req.aid,
     QuestionId |-> req.answered[1],
     Response |-> req.responses[Len(req.responses)],
     ThetaBefore |-> theta_before, ThetaAfter |-> theta_after]

\* The parameters of INSERT INTO dbo.CAT_Logs: "q": answered_questions[-1],
\* "r": bool(last_response[-1]), "tb": float(current_theta), "ta": float(theta_after)
LogRow(req, theta_before, theta_after) ==
    [Pair |-> req.pair, AssignmentId |-> req.aid,
     QuestionId |-> req.answered[Len(req.answered)],
     Response |-> req.responses[Len(req.responses)],
     ThetaBefore |-> theta_before, ThetaAfter |-> theta_after]

\* The log table holding the new row alone.
ReplaceLog(logs, row) == <<row>>

\* INSERT INTO dbo.CAT_Logs (...) VALUES (...)
InsertLog(logs, row) == Append(logs, row)

\* The rest of the handler: client theta, question load, estimation and log,
\* pool filter, completion or selection.
NsStep(p) ==
    /\ proc[p].pc = "ns_step"
    /\ LET req == proc[p].req
           theta0 == PriorTheta(req, proc[p].cur)
           df == LoadQuestions(McqQuestions, req.aid)
       IN IF df = <<>>
          THEN /\ proc' = [proc EXCEPT ![p] = [@ EXCEPT !.pc = "done", !.resp = ErrorResponse(400)]]
               /\ UNCHANGED CAT_Logs
          ELSE \E search \in SearchOutcomes :
               LET scored == req.responses # <<>> /\ req.answered # <<>>
                   est == estimate_theta(df, Administered(AllIds(df), req.answered),
                                         <<req.responses[Len(req.responses)]>>, theta0, search)
                   current_theta == IF scored THEN est[1] ELSE theta0
                   unanswered_df == Unanswered(df, req.answered)
               IN /\ CAT_Logs' =
                        IF scored
                        THEN InsertLog(CAT_Logs, LogRow(req, theta0, est[1]))
                        ELSE CAT_Logs
                  /\ IF unanswered_df = <<>>
                     THEN proc' = [proc EXCEPT ![p] = [@ EXCEPT !.pc = "done", !.cur = current_theta,
                                      !.resp = [NoResponse EXCEPT !.status = 200,
                                                  !.kind = "completed", !.theta = current_theta]]]
                     ELSE \E next_idx_local \in TopKChoices(unanswered_df, current_theta) :
                            proc' = [proc EXCEPT ![p] = [@ EXCEPT !.pc = "done", !.cur = current_theta,
                                      !.resp = [NoResponse EXCEPT !.status = 200,
                                                  !.kind = "next", !.theta = current_theta,
                                                  !.qid = NextQuestionRow(df, unanswered_df,
                                                                          next_idx_local).Id]]]
    /\ UNCHANGED <<McqQuestions, UserAbilities, CAT_Results>>

----------------------------------------------------------------------------
(* submit_assignment                                                       *)

\* The validation without its length comparison.
SubmitRejectedIfEmpty(answered_questions, responses) ==
    \/ answered_questions = <<>>
    \/ responses = <<>>

\* not answered_questions or not responses or len(answered_questions) != len(responses)
SubmitRejected(answered_questions, responses) ==
    \/ answered_questions = <<>>
    \/ responses = <<>>
    \/ Len(answered_questions) # Len(responses)

Min(a, b) == IF a <= b THEN a ELSE b

\* The positions zip(answered_questions, responses) keeps: qid in all_ids
KeptPositions(all_ids, answered_questions, responses) ==
    {i \in 1..Min(Len(answered_questions), Len(responses)) :
        answered_questions[i] \in Range(all_ids)}

\* The responses from position i on, none dropped.
RespListAll(all_ids, answered_questions, responses, i) ==
    SubSeq(responses, i, Min(Len(answered_questions), Len(responses)))

\* resp_list, in order
RECURSIVE RespList(_, _, _, _)
RespList(all_ids, answered_questions, responses, i) ==
    IF i > Min(Len(answered_questions), Len(responses)) THEN <<>>
    ELSE (IF i \in KeptPositions(all_ids, answered_questions, responses)
          THEN <<responses[i]>> ELSE <<>>)
         \o RespList(all_ids, answered_questions, responses, i + 1)

\* administered_items, in order
RECURSIVE SubmitAdministered(_, _, _, _)
SubmitAdministered(all_ids, answered_questions, responses, i) ==
    IF i > Min(Len(answered_questions), Len(responses)) THEN <<>>
    ELSE (IF i \in KeptPositions(all_ids, answered_questions, responses)
          THEN <<IndexOf(all_ids, answered_questions[i])>> ELSE <<>>)
         \o SubmitAdministered(all_ids, answered_questions, responses, i + 1)

\* sum(resp_list)
RECURSIVE Sum(_)
Sum(s) == IF s = <<>> THEN 0 ELSE Head(s) + Sum(Tail(s))

\* The smoothing with its two weights exchanged.
SmoothSwapped(user_theta_before, final_theta, alpha) ==
    (user_theta_before * alpha + final_theta * (10 - alpha)) \div 10

\* new_theta = user_theta_before * (1 - alpha) + final_theta * alpha   (alpha in tenths)
Smooth(user_theta_before, final_theta, alpha) ==
    (user_theta_before * (10 - alpha) + final_theta * alpha) \div 10

\* The CAT_Results row and the response of a submission
ResultRow(req, final_theta, resp_list, user_theta_before) ==
    [Pair |-> req.pair, AssignmentId |-> req.aid, FinalTheta |-> final_theta,
     CorrectCount |-> Sum(resp_list), TotalQuestions |-> Len(resp_list),
     ThetaBefore |-> user_theta_before, ThetaAfter |-> final_theta]

SubmitResponse(final_theta, new_theta, resp_list) ==
    [NoResponse EXCEPT !.status = 200, !.kind = "submitted", !.theta = final_theta,
        !.updated = new_theta, !.correct = Sum(resp_list), !.total = Len(resp_list)]

\* The request arrives, is validated, and the questions are loaded.
SubmitBegin(p, pairs) ==
    /\ proc[p].pc = "idle"
    /\ \E pair \in pairs, aid \in RequestAssignments, answered \in AnsweredLists,
          responses \in ResponseLists, alpha \in Alphas :
          LET req == [op |-> "submit", pair |-> pair, aid |-> aid, answered |-> answered,
                      responses |-> responses, ctheta |-> <<>>, alpha |-> alpha]
          IN proc' = [proc EXCEPT ![p] =
                        IF SubmitRejected(answered, responses)
                        THEN [IdleProc EXCEPT !.pc = "done", !.req = req,
                                              !.resp = ErrorResponse(400)]
                        ELSE IF LoadQuestions(McqQuestions, aid) = <<>>
                        THEN [IdleProc EXCEPT !.pc = "done", !.req = req,
                                              !.resp = ErrorResponse(400)]
                        ELSE [IdleProc EXCEPT !.pc = "sb_read", !.req = req]]
    /\ UNCHANGED <<McqQuestions, UserAbilities, CAT_Logs, CAT_Results>>

\* The read transaction (user_theta_before) and the estimation of final_theta.
\* The transaction ends here: the write below runs in a second one.
SbRead(p) ==
    /\ proc[p].pc = "sb_read"
    /\ \E search \in SearchOutcomes :
         LET req == proc[p].req
             res == SelectTheta(UserAbilities, req.pair)
             user_theta_before == IF res # <<>> THEN res[1] ELSE 0
             df == LoadQuestions(McqQuestions, req.aid)
             est == estimate_theta(df,
                        SubmitAdministered(AllIds(df), req.answered, req.responses, 1),
                        RespList(AllIds(df), req.answered, req.responses, 1),
                        user_theta_before, search)
         IN proc' = [proc EXCEPT ![p] =
                       [@ EXCEPT !.pc = "sb_write", !.cur = user_theta_before, !.final = est[1]]]
    /\ UNCHANGED <<McqQuestions, UserAbilities, CAT_Logs, CAT_Results>>

\* The write transaction up to the UPDATE: with a row updated it commits
\* (CAT_Results row and new theta together); with rowcount 0 the INSERT follows.
SbWrite(p) ==
    /\ proc[p].pc = "sb_write"
    /\ LET req == proc[p].req
           df == LoadQuestions(McqQuestions, req.aid)
           resp_list == RespList(AllIds(df), req.answered, req.responses, 1)
           new_theta == Smooth(proc[p].cur, proc[p].final, AlphaOf(req))
       IN IF RowCount(UserAbilities, req.pair) = 0
          THEN /\ proc' = [proc EXCEPT ![p] = [@ EXCEPT !.pc = "sb_insert"]]
               /\ UNCHANGED <<UserAbilities, CAT_Results>>
          ELSE /\ UserAbilities' = UpdateTheta(UserAbilities, req.pair, new_theta)
               /\ CAT_Results' = Append(CAT_Results,
                                     ResultRow(req, proc[p].final, resp_list, proc[p].cur))
               /\ proc' = [proc EXCEPT ![p] = [@ EXCEPT !.pc = "done",
                              !.resp = SubmitResponse(proc[p].final, new_theta, resp_list)]]
    /\ UNCHANGED <<McqQuestions, CAT_Logs>>

\* The write without its transaction: the CAT_Results row of a rejected
\* INSERT stays.
SbInsertNoRollback(p) ==
    /\ proc[p].pc = "sb_insert"
    /\ LET req == proc[p].req
           df == LoadQuestions(McqQuestions, req.aid)
           resp_list == RespList(AllIds(df), req.answered, req.responses, 1)
           new_theta == Smooth(proc[p].cur, proc[p].final, AlphaOf(req))
       IN /\ CAT_Results' = Append(CAT_Results,
                                ResultRow(req, proc[p].final, resp_list, proc[p].cur))
          /\ IF UniqueViolation(UserAbilities, req.pair)
             THEN /\ proc' = [proc EXCEPT ![p] = [@ EXCEPT !.pc = "done",
                                                     !.resp = ErrorResponse(500)]]
                  /\ UNCHANGED UserAbilities
             ELSE /\ UserAbilities' = Append(UserAbilities, [Pair |-> req.pair, Theta |-> new_theta])
                  /\ proc' = [proc EXCEPT ![p] = [@ EXCEPT !.pc = "done",
                                 !.resp = SubmitResponse(proc[p].final, new_theta, resp_list)]]
    /\ UNCHANGED <<McqQuestions, CAT_Logs>>

\* The INSERT INTO dbo.UserAbilities after rowcount 0, and the commit; a
\* duplicate key raises, the transaction rolls back and the except answers 500.
SbInsert(p) ==
    /\ proc[p].pc = "sb_insert"
    /\ LET req == proc[p].req
           df == LoadQuestions(McqQuestions, req.aid)
           resp_list == RespList(AllIds(df), req.answered, req.responses, 1)
           new_theta == Smooth(proc[p].cur, proc[p].final, AlphaOf(req))
       IN IF UniqueViolation(UserAbilities, req.pair)
          THEN /\ proc' = [proc EXCEPT ![p] = [@ EXCEPT !.pc = "done",
                                                  !.resp = ErrorResponse(500)]]
               /\ UNCHANGED <<UserAbilities, CAT_Results>>
          ELSE /\ UserAbilities' = Append(UserAbilities, [Pair |-> req.pair, Theta |-> new_theta])
               /\ CAT_Results' = Append(CAT_Results,
                                     ResultRow(req, proc[p].final, resp_list, proc[p].cur))
               /\ proc' = [proc EXCEPT ![p] = [@ EXCEPT !.pc = "done",
                              !.resp = SubmitResponse(proc[p].final, new_theta, resp_list)]]
    /\ UNCHANGED <<McqQuestions, CAT_Logs>>

----------------------------------------------------------------------------
(* Specifications                                                          *)

\* Two handlers run concurrently, each serving one request with any inputs.
Next ==
    \E p \in Procs :
        \/ NextBegin(p, SharedPair)
        \/ NsRead(p)
        \/ NsInsert(p)
        \/ NsStep(p)
        \/ SubmitBegin(p, SharedPair)
        \/ SbRead(p)
        \/ SbWrite(p)
        \/ SbInsert(p)

Spec == Init /\ [][Next]_vars

----------------------------------------------------------------------------
(* One examinee working through assignment "A" of the full bank: each call *)
(* echoes the items offered so far as answered, with the response to the   *)
(* last one.  The examinee either never sends current_theta or, from the   *)
(* first answer on, always sends back the temp_theta just returned.        *)

\* The handler that serves the examinee's calls, one after the other.
Examinee == CHOOSE p \in Procs : \A q \in Procs : p <= q

InitSession ==
    /\ McqQuestions = FullBank
    /\ UserAbilities = <<>>
    /\ CAT_Logs = <<>>
    /\ CAT_Results = <<>>
    /\ proc = [p \in Procs |-> IdleProc]

\* The examinee's first call: nothing answered, no response.
SessionStart ==
    /\ proc[Examinee].pc = "idle"
    /\ proc' = [proc EXCEPT ![Examinee] =
                  [IdleProc EXCEPT !.pc = "ns_read",
                     !.req = [op |-> "next", pair |-> 1, aid |-> "A", answered |-> <<>>,
                              responses |-> <<>>, ctheta |-> <<>>, alpha |-> <<>>]]]
    /\ UNCHANGED <<McqQuestions, UserAbilities, CAT_Logs, CAT_Results>>

\* current_theta of the examinee's next call
SessionThetas ==
    IF proc[Examinee].req.answered = <<>>
    THEN {<<>>, <<proc[Examinee].resp.theta>>}
    ELSE IF proc[Examinee].req.ctheta = <<>> THEN {<<>>} ELSE {<<proc[Examinee].resp.theta>>}

\* The examinee answers the item just offered and asks for the next one.
SessionAnswer ==
    /\ proc[Examinee].pc = "done"
    /\ proc[Examinee].resp.kind = "next"
    /\ \E r \in {0, 1}, ct \in SessionThetas :
         proc' = [proc EXCEPT ![Examinee] =
                    [IdleProc EXCEPT !.pc = "ns_read",
                       !.req = [op |-> "next", pair |-> 1, aid |-> "A",
                                answered |-> Append(proc[Examinee].req.answered,
                                                    proc[Examinee].resp.qid),
                                responses |-> <<r>>, ctheta |-> ct, alpha |-> <<>>]]]
    /\ UNCHANGED <<McqQuestions, UserAbilities, CAT_Logs, CAT_Results>>

NextSession ==
    \/ SessionStart
    \/ SessionAnswer
    \/ NsRead(Examinee)
    \/ NsInsert(Examinee)
    \/ NsStep(Examinee)

SpecSession == InitSession /\ [][NextSession]_vars

----------------------------------------------------------------------------
(* Two handlers serving requests for two different (UserId, CourseId)      *)
(* pairs, one request each, in any interleaving.                           *)

\* The pair whose requests handler p serves.
OwnPair(p) == {pair \in Pairs : pair = p}

NextPairs ==
    \E p \in Procs :
        \/ NextBegin(p, OwnPair(p))
        \/ NsRead(p)
        \/ NsInsert(p)
        \/ NsStep(p)
        \/ SubmitBegin(p, OwnPair(p))
        \/ SbRead(p)
        \/ SbWrite(p)
        \/ SbInsert(p)

SpecPairs == Init /\ [][NextPairs]_vars

----------------------------------------------------------------------------
(* Requests served one after the other: a request arrives only when no     *)
(* other request is being handled.  The two requests may be for the same   *)
(* (UserId, CourseId) pair or for different ones.                          *)

\* No other handler is between the arrival of its request and its response.
NoneInFlight(p) == \A q \in Procs \ {p} : proc[q].pc \in {"idle", "done"}

NextSerial ==
    \E p \in Procs :
        \/ NoneInFlight(p) /\ NextBegin(p, Pairs)
        \/ NsRead(p)
        \/ NsInsert(p)
        \/ NsStep(p)
        \/ NoneInFlight(p) /\ SubmitBegin(p, Pairs)
        \/ SbRead(p)
        \/ SbWrite(p)
        \/ SbInsert(p)

SpecSerial == Init /\ [][NextSerial]_vars

----------------------------------------------------------------------------
(* estimate_theta called directly, as tests/test_estimate_theta.py calls   *)
(* it: any prior, any short or longer history, any outcome of the search.  *)

\* The caller of the direct calls.
Tester == CHOOSE p \in Procs : \A q \in Procs : p <= q

\* Priors at and next to both ends of the range, inside it, and beyond it.
PriorThetas == {ThetaMin, 0 - 3900, 0 - 3750, 0, 1200, 3750, 3900, ThetaMax, 10000}

\* The item matrices passed as items
EstimateItems == {LoadQuestions(SmallBank, "A"), LoadQuestions(FullBank, "A")}

\* administered_items: row indices into items
AdministeredLists == SeqUpTo({1, 2}, MaxLen)

\* theta_after, theta_before = estimate_theta(items, administered_items, responses, theta)
EstimateCall ==
    /\ proc[Tester].pc = "idle"
    /\ \E items \in EstimateItems, administered_items \in AdministeredLists,
          responses \in ResponseLists, current_theta \in PriorThetas,
          search \in SearchOutcomes :
          LET est == estimate_theta(items, administered_items, responses, current_theta, search)
          IN proc' = [proc EXCEPT ![Tester] =
                        [IdleProc EXCEPT !.pc = "estimated",
                           !.req = [op |-> "estimate", items |-> items,
                                    administered_items |-> administered_items,
                                    responses |-> responses,
                                    current_theta |-> current_theta, search |-> search],
                           !.final = est[1], !.cur = est[2]]]
    /\ UNCHANGED <<McqQuestions, UserAbilities, CAT_Logs, CAT_Results>>

\* The caller takes the result and is ready for the next call.
EstimateReturn ==
    /\ proc[Tester].pc = "estimated"
    /\ proc' = [proc EXCEPT ![Tester] = IdleProc]
    /\ UNCHANGED <<McqQuestions, UserAbilities, CAT_Logs, CAT_Results>>

NextEstimate ==
    \/ EstimateCall
    \/ EstimateReturn

SpecEstimate == Init /\ [][NextEstimate]_vars

----------------------------------------------------------------------------
(* item_information called directly, as tests/test_irt.py calls it: items  *)
(* with c from 0 to 1 and thetas from far below to far above b.            *)

InfoAs == {0, 5, 10, 30}
InfoBs == {0 - 2000, 0, 1000}
InfoCs == {0, 200, Scale}
\* +-40.0 is far enough from every b for the logistic to saturate.
InfoThetas == {0 - 40000, ThetaMin, 0 - 1000, 0, 1000, ThetaMax, 40000}

\* info = item_information((a, b, c, 1.0), theta)
InformationCall ==
    /\ proc[Tester].pc = "idle"
    /\ \E a \in InfoAs, b \in InfoBs, c \in InfoCs, theta \in InfoThetas :
          LET item == [Id |-> 0, ParamA |-> a, ParamB |-> b, ParamC |-> c]
          IN proc' = [proc EXCEPT ![Tester] =
                        [IdleProc EXCEPT !.pc = "informed",
                           !.req = [op |-> "information", item |-> item, theta |-> theta],
                           !.final = item_information(item, theta)]]
    /\ UNCHANGED <<McqQuestions, UserAbilities, CAT_Logs, CAT_Results>>

\* The caller takes the result and is ready for the next call.
InformationReturn ==
    /\ proc[Tester].pc = "informed"
    /\ proc' = [proc EXCEPT ![Tester] = IdleProc]
    /\ UNCHANGED <<McqQuestions, UserAbilities, CAT_Logs, CAT_Results>>

NextInformation ==
    \/ InformationCall
    \/ InformationReturn

SpecInformation == Init /\ [][NextInformation]_vars

----------------------------------------------------------------------------
(* Properties                                                              *)

\* The eligible item set of an assignment: its questions with a, b and c set.
EligibleIds(aid) ==
    {McqQuestions[i].Id : i \in {j \in 1..Len(McqQuestions) :
        /\ McqQuestions[j].AssignmentId = aid
        /\ McqQuestions[j].ParamA # NoParam
        /\ McqQuestions[j].ParamB # NoParam
        /\ McqQuestions[j].ParamC # NoParam}}

InThetaRange(t) == ThetaMin <= t /\ t <= ThetaMax

\* The stored theta of a pair, 0.0 when it has no row.
StoredTheta(pair) ==
    LET res == SelectTheta(UserAbilities, pair) IN IF res = <<>> THEN 0 ELSE res[1]

Answered(p) == proc[p].pc = "done" /\ proc[p].resp.status = 200

\* C1: the theta a next_question call returns (temp_theta with a next item,
\* final_theta on completion) lies within [-4, 4], whatever the caller sent.
C1_ReturnedThetaInRange ==
    \A p \in Procs :
        (Answered(p) /\ proc[p].req.op = "next") => InThetaRange(proc[p].resp.theta)

\* C2: in every reachable state the Theta of every UserAbilities row lies
\* within [-4, 4], whatever smoothing_alpha the submissions carried.
C2_StoredThetaInRange ==
    \A i \in 1..Len(UserAbilities) : InThetaRange(UserAbilities[i].Theta)

\* C3: a next_question call never returns an item for which CAT_Logs already
\* holds an entry of the same attempt (user, course, assignment).
C3_LoggedItemNotReoffered ==
    [][\A p \in Procs :
          (proc[p].pc = "ns_step" /\ proc'[p].resp.kind = "next")
          => ~ \E i \in 1..Len(CAT_Logs) :
                  /\ CAT_Logs[i].Pair = proc[p].req.pair
                  /\ CAT_Logs[i].AssignmentId = proc[p].req.aid
                  /\ CAT_Logs[i].QuestionId = proc'[p].resp.qid]_vars

\* C4: the item a next_question call returns is an eligible item of the
\* request's assignment and is none of the request's answered_questions.
C4_SelectedEligibleAndUnanswered ==
    \A p \in Procs :
        (Answered(p) /\ proc[p].resp.kind = "next")
        => /\ proc[p].resp.qid \in EligibleIds(proc[p].req.aid)
           /\ proc[p].resp.qid \notin Range(proc[p].req.answered)

\* C4 witness: a call that named an eligible item as answered got another item.
C4_Witness ==
    \E p \in Procs :
        /\ Answered(p) /\ proc[p].resp.kind = "next"
        /\ Range(proc[p].req.answered) \cap EligibleIds(proc[p].req.aid) # {}

\* A submission that passed validation and reached the tables.
Submitted(p) ==
    /\ proc[p].pc = "done" /\ proc[p].req.op = "submit"
    /\ ~ SubmitRejected(proc[p].req.answered, proc[p].req.responses)
    /\ LoadQuestions(McqQuestions, proc[p].req.aid) # <<>>

\* C5: after two concurrent first submissions for one pair, exactly one row
\* exists, both were accepted, and the stored theta is the smoothing of one
\* onto the result of the other (the later one read the earlier one's write).
C5_ConcurrentFirstSubmits ==
    \A p, q \in Procs :
        (p # q /\ Submitted(p) /\ Submitted(q) /\ proc[p].req.pair = proc[q].req.pair)
        => /\ RowCount(UserAbilities, proc[p].req.pair) = 1
           /\ proc[p].resp.status = 200 /\ proc[q].resp.status = 200
           /\ \E first, second \in {p, q} :
                 /\ first # second
                 /\ proc[first].cur = 0
                 /\ proc[second].cur = proc[first].resp.updated
                 /\ StoredTheta(proc[p].req.pair) = proc[second].resp.updated

\* C6: a submission writes its new theta only over the stored theta it read:
\* no other write to the pair's row falls between its read and its write.
C6_NoStaleWrite ==
    [][\A p \in Procs :
          (proc[p].pc \in {"sb_write", "sb_insert"} /\ proc'[p].resp.status = 200)
          => StoredTheta(proc[p].req.pair) = proc[p].cur]_vars

\* C7: no caller receives an error response because it lost the race on the
\* first insert of the pair's row.
C7_NoConflictError ==
    \A p \in Procs : proc[p].pc = "done" => proc[p].resp.status # 500

\* C8: a request rejected as an input error leaves the tables as they were
\* before it; with no other request made, they are as empty as at the start.
C8_RejectedLeavesNoTrace ==
    \A p \in Procs :
        (/\ proc[p].pc = "done" /\ proc[p].resp.status = 400
         /\ \A q \in Procs \ {p} : proc[q].pc = "idle")
        => UserAbilities = <<>> /\ CAT_Logs = <<>> /\ CAT_Results = <<>>

\* C9: a submission whose answered_questions and responses differ in length
\* ends at once with an error result, and writes neither a CAT_Results row
\* nor a UserAbilities row.
C9_LengthMismatchRejected ==
    [][\A p \in Procs :
          (/\ proc[p].pc = "idle" /\ proc'[p].req.op = "submit"
           /\ Len(proc'[p].req.answered) # Len(proc'[p].req.responses))
          => /\ proc'[p].pc = "done"
             /\ proc'[p].resp = ErrorResponse(400)
             /\ UNCHANGED <<UserAbilities, CAT_Results>>]_vars

\* C9 witness: a submission with two non-empty lists of different lengths was rejected.
C9_Witness ==
    \E p \in Procs :
        /\ proc[p].pc = "done" /\ proc[p].req.op = "submit"
        /\ proc[p].req.answered # <<>> /\ proc[p].req.responses # <<>>
        /\ Len(proc[p].req.answered) # Len(proc[p].req.responses)
        /\ proc[p].resp.status = 400

\* C10: the examinee's walk through an assignment of N eligible items: every
\* call with fewer than N items answered returns an eligible item not yet
\* answered, never a completion; the call with all N answered returns the
\* completion, whose final theta is the estimate after the last response;
\* each answer was scored once.
C10_SessionWalk ==
    LET e == proc[Examinee]
        N == Cardinality(EligibleIds("A"))
    IN e.pc = "done"
       => /\ e.resp.status = 200
          /\ Len(e.req.answered) <= N
          /\ Len(CAT_Logs) = Len(e.req.answered)
          /\ Len(e.req.answered) < N
                => /\ e.resp.kind = "next"
                   /\ e.resp.qid \in EligibleIds("A") \ Range(e.req.answered)
          /\ Len(e.req.answered) = N
                => /\ e.resp.kind = "completed"
                   /\ e.resp.theta = CAT_Logs[Len(CAT_Logs)].ThetaAfter

\* C10 witness: the call after all N answers returned the completion.
C10_Witness ==
    /\ proc[Examinee].pc = "done"
    /\ proc[Examinee].resp.kind = "completed"
    /\ Len(proc[Examinee].req.answered) = Cardinality(EligibleIds("A"))

----------------------------------------------------------------------------
(* Properties of estimate_theta (SpecEstimate)                             *)

\* A direct call of estimate_theta has returned.
Estimated == proc[Tester].pc = "estimated"

\* The most recent response of the call is correct.
LastCorrect == LET r == proc[Tester].req.responses IN r # <<>> /\ r[Len(r)] = 1

\* C11: with zero or exactly one administered item the new theta is
\* clamp(prior + 0.3, -4, 4) when the most recent response is correct and
\* clamp(prior - 0.3, -4, 4) otherwise, whatever the items' parameters and
\* whatever the numerical search would have done (it is not consulted).
C11_ShortHistoryStep ==
    (Estimated /\ Len(proc[Tester].req.administered_items) <= 1)
    => proc[Tester].final =
          clip(proc[Tester].req.current_theta
                  + (IF LastCorrect THEN StepShort ELSE 0 - StepShort),
               ThetaMin, ThetaMax)

\* C11 witness: one administered item, a correct response and a search that
\* would have returned another value: the result is the prior plus 0.3.
C11_Witness ==
    /\ Estimated
    /\ Len(proc[Tester].req.administered_items) = 1
    /\ LastCorrect
    /\ ~ proc[Tester].req.search.raises
    /\ proc[Tester].req.current_theta = 1200
    /\ proc[Tester].final = 1500

\* C12: with two or more administered items and a numerical search that
\* raises, estimate_theta returns clamp(prior + 0.2, -4, 4) when the most
\* recent response is correct and clamp(prior - 0.2, -4, 4) otherwise.
C12_SearchFailureFallback ==
    (/\ Estimated
     /\ Len(proc[Tester].req.administered_items) >= 2
     /\ proc[Tester].req.search.raises)
    => proc[Tester].final =
          clip(proc[Tester].req.current_theta + (IF LastCorrect THEN 200 ELSE 0 - 200),
               ThetaMin, ThetaMax)

\* C12 witness: the search raised on a two-item history whose first response
\* is correct and whose last is not: the result is the prior minus 0.2.
C12_Witness ==
    /\ Estimated
    /\ Len(proc[Tester].req.administered_items) >= 2
    /\ proc[Tester].req.search.raises
    /\ proc[Tester].req.responses = <<1, 0>>
    /\ proc[Tester].req.current_theta = 0
    /\ proc[Tester].final = 0 - 200

\* C13: on every path of estimate_theta, for every prior within [-4, 4] and
\* every response, the new theta lies within [-4, 4]; a step that would leave
\* the range ends on its boundary (3.9 and a correct response give 4.0).
C13_EstimateInRange ==
    (Estimated /\ InThetaRange(proc[Tester].req.current_theta))
    => /\ InThetaRange(proc[Tester].final)
       /\ (/\ proc[Tester].req.current_theta = 3900
           /\ LastCorrect
           /\ (Len(proc[Tester].req.administered_items) <= 1
                  \/ proc[Tester].req.search.raises))
          => proc[Tester].final = ThetaMax

\* C13 witness: the short-history step from 3.9 with a correct response ended
\* on the boundary 4.0.
C13_Witness ==
    /\ Estimated
    /\ proc[Tester].req.current_theta = 3900
    /\ Len(proc[Tester].req.administered_items) <= 1
    /\ LastCorrect
    /\ proc[Tester].final = ThetaMax

\* C14: on every path of estimate_theta the second returned component is the
\* prior theta passed in.
C14_ThetaBeforeIsPrior ==
    Estimated => proc[Tester].cur = proc[Tester].req.current_theta

\* C14 witness: a call whose new theta differs from the prior it returns.
C14_Witness ==
    /\ Estimated
    /\ proc[Tester].final # proc[Tester].req.current_theta
    /\ proc[Tester].cur = proc[Tester].req.current_theta

----------------------------------------------------------------------------
(* Properties of the selection (SpecSession)                               *)

\* The pool of a next_question call: the eligible rows not named as answered.
PoolOf(p) == Unanswered(LoadQuestions(McqQuestions, proc[p].req.aid), proc[p].req.answered)

\* The pool rows with strictly more information at theta than row i.
StrictlyBetter(pool, theta, i) ==
    {j \in 1..Len(pool) :
        item_information(pool[j], theta) > item_information(pool[i], theta)}

\* The pool row a response's question_id names.
SelectedIndex(p) == CHOOSE i \in 1..Len(PoolOf(p)) : PoolOf(p)[i].Id = proc[p].resp.qid

\* C15: the item next_question selects from a non-empty pool is one of the
\* min(3, |pool|) items with the highest information at the current theta: at
\* most two other pool items have strictly greater information.
C15_SelectedAmongTopThree ==
    \A p \in Procs :
        (Answered(p) /\ proc[p].resp.kind = "next")
        => Cardinality(StrictlyBetter(PoolOf(p), proc[p].resp.theta, SelectedIndex(p))) <= 2

\* C15 witness: an item was selected from a pool of at least four in which
\* two items have strictly less information than it.
C15_Witness ==
    \E p \in Procs :
        /\ Answered(p) /\ proc[p].resp.kind = "next"
        /\ Len(PoolOf(p)) >= 4
        /\ \E i, j \in 1..Len(PoolOf(p)) :
              /\ i # j
              /\ SelectedIndex(p) \in StrictlyBetter(PoolOf(p), proc[p].resp.theta, i)
              /\ SelectedIndex(p) \in StrictlyBetter(PoolOf(p), proc[p].resp.theta, j)

\* current_theta of a call at the selection, for one outcome of the search:
\* the client's or the stored theta, replaced by the estimate when a response
\* is scored.
ThetaAtSelection(p, search) ==
    LET req == proc[p].req
        theta0 == IF req.ctheta # <<>> THEN req.ctheta[1] ELSE proc[p].cur
        df == LoadQuestions(McqQuestions, req.aid)
    IN IF req.responses # <<>> /\ req.answered # <<>>
       THEN estimate_theta(df, Administered(AllIds(df), req.answered),
                           <<req.responses[Len(req.responses)]>>, theta0, search)[1]
       ELSE theta0

\* The rows that every descending ranking places among its first three: at
\* most two other rows have as much information or more.
TopRanked(pool, theta) ==
    {i \in 1..Len(pool) :
        Cardinality({j \in 1..Len(pool) \ {i} :
            item_information(pool[j], theta) >= item_information(pool[i], theta)}) <= 2}

\* C16: with a pool of three or more, each of the three top-ranked items is
\* a possible outcome of the selection: whatever theta the estimation gave,
\* each of them is among the values random.choice(top_k) can return, the set
\* from which the handler's step NsStep draws next_idx_local.
C16_EachTopItemPossible ==
    \A p \in Procs :
        (proc[p].pc = "ns_step" /\ Len(PoolOf(p)) >= 3)
        => \A search \in SearchOutcomes :
              TopRanked(PoolOf(p), ThetaAtSelection(p, search))
                 \subseteq TopKChoices(PoolOf(p), ThetaAtSelection(p, search))

\* C16 witness: from a pool of three or more with three top-ranked items,
\* the item returned is not one of maximal information.
C16_Witness ==
    \E p \in Procs :
        /\ Answered(p) /\ proc[p].resp.kind = "next"
        /\ Len(PoolOf(p)) >= 3
        /\ Cardinality(TopRanked(PoolOf(p), proc[p].resp.theta)) = 3
        /\ SelectedIndex(p) \in TopRanked(PoolOf(p), proc[p].resp.theta)
        /\ StrictlyBetter(PoolOf(p), proc[p].resp.theta, SelectedIndex(p)) # {}

----------------------------------------------------------------------------
(* Properties of submit_assignment (Spec)                                  *)

\* C17: for every accepted submission the returned and the persisted
\* correct count is the number of 1s in the supplied responses, and the
\* total is the length of the supplied responses.
C17_CountsMatchResponses ==
    \A p \in Procs :
        (Answered(p) /\ proc[p].req.op = "submit")
        => /\ proc[p].resp.correct = Sum(proc[p].req.responses)
           /\ proc[p].resp.total = Len(proc[p].req.responses)
           /\ \E i \in 1..Len(CAT_Results) :
                 /\ CAT_Results[i].Pair = proc[p].req.pair
                 /\ CAT_Results[i].CorrectCount = Sum(proc[p].req.responses)
                 /\ CAT_Results[i].TotalQuestions = Len(proc[p].req.responses)

\* C18: a submission reads as stored theta the theta of the pair's row, 0.0
\* without a row, and when it is accepted the theta it stores and the
\* updated_user_theta it returns are both
\* stored*(1 - alpha) + final_theta*alpha, alpha being 0.2 when not supplied.
C18_SmoothedAbility ==
    [][\A p \in Procs :
          /\ (proc[p].pc = "sb_read" /\ proc'[p].pc = "sb_write")
             => proc'[p].cur =
                   (IF \E i \in 1..Len(UserAbilities) : UserAbilities[i].Pair = proc[p].req.pair
                    THEN StoredTheta(proc[p].req.pair) ELSE 0)
          /\ (proc[p].pc \in {"sb_write", "sb_insert"} /\ proc'[p].resp.status = 200)
             => LET alpha == IF proc[p].req.alpha = <<>> THEN 2 ELSE proc[p].req.alpha[1]
                    expected == (proc[p].cur * (10 - alpha) + proc[p].final * alpha) \div 10
                IN /\ StoredTheta(proc[p].req.pair)' = expected
                   /\ proc'[p].resp.updated = expected]_vars

\* C18 witness: a submission without smoothing_alpha was accepted over a row
\* whose theta was not 0, and its final theta differs from that theta.
C18_Witness ==
    \E p \in Procs :
        /\ Answered(p) /\ proc[p].req.op = "submit"
        /\ proc[p].req.alpha = <<>>
        /\ proc[p].cur # 0
        /\ proc[p].final # proc[p].cur
        /\ StoredTheta(proc[p].req.pair) = proc[p].resp.updated

----------------------------------------------------------------------------
(* Independence of pairs (SpecPairs)                                       *)

\* The thetas a next_question call returns when it runs alone on a pair
\* without a row: the client's theta or 0.0, replaced by the estimate when a
\* response is scored.
LoneNextThetas(req) ==
    LET theta0 == IF req.ctheta # <<>> THEN req.ctheta[1] ELSE 0
        df == LoadQuestions(McqQuestions, req.aid)
    IN IF req.responses # <<>> /\ req.answered # <<>>
       THEN {estimate_theta(df, Administered(AllIds(df), req.answered),
                            <<req.responses[Len(req.responses)]>>, theta0, search)[1] :
                search \in SearchOutcomes}
       ELSE {theta0}

\* The final thetas a submission computes when it runs alone on a pair
\* without a row.
LoneSubmitThetas(req) ==
    LET df == LoadQuestions(McqQuestions, req.aid)
    IN {estimate_theta(df, SubmitAdministered(AllIds(df), req.answered, req.responses, 1),
                       RespList(AllIds(df), req.answered, req.responses, 1), 0, search)[1] :
           search \in SearchOutcomes}

\* The finished handler p answered, and left its pair's row, as it does when
\* no other request is made at all.
AsIfAlone(p) ==
    LET req == proc[p].req
        resp == proc[p].resp
    IN /\ resp.status # 500
       /\ req.op = "next"
          => /\ RowCount(UserAbilities, req.pair) = 1
             /\ StoredTheta(req.pair) = 0
             /\ resp.status = 200 => resp.theta \in LoneNextThetas(req)
             /\ resp.status = 400 <=> LoadQuestions(McqQuestions, req.aid) = <<>>
       /\ req.op = "submit"
          => /\ resp.status = 400 <=> ~ Submitted(p)
             /\ resp.status = 400 => RowCount(UserAbilities, req.pair) = 0
             /\ resp.status = 200
                => /\ resp.theta \in LoneSubmitThetas(req)
                   /\ resp.updated = (resp.theta * AlphaOf(req)) \div 10
                   /\ RowCount(UserAbilities, req.pair) = 1
                   /\ StoredTheta(req.pair) = resp.updated

\* C19: a step of a next_question or submit_assignment call for one pair
\* leaves the UserAbilities rows of every other pair as they were and adds
\* none for them, and the call ends with the result it has when it runs
\* alone, whatever the requests for other pairs did in between.
C19_PairsIndependent ==
    /\ [](\A p \in Procs : proc[p].pc = "done" => AsIfAlone(p))
    /\ [][\A p \in Procs :
             proc'[p] # proc[p]
             => /\ Len(UserAbilities') >= Len(UserAbilities)
                /\ \A i \in 1..Len(UserAbilities) :
                      UserAbilities[i].Pair # proc'[p].req.pair
                      => UserAbilities'[i] = UserAbilities[i]
                /\ \A i \in (Len(UserAbilities) + 1)..Len(UserAbilities') :
                      UserAbilities'[i].Pair = proc'[p].req.pair]_vars

\* C19 witness: two submissions for different pairs were both accepted and
\* left two rows with different thetas, neither of them 0.
C19_Witness ==
    \E p, q \in Procs :
        /\ Answered(p) /\ proc[p].req.op = "submit"
        /\ Answered(q) /\ proc[q].req.op = "submit"
        /\ proc[p].req.pair # proc[q].req.pair
        /\ StoredTheta(proc[p].req.pair) # 0
        /\ StoredTheta(proc[q].req.pair) # 0
        /\ StoredTheta(proc[p].req.pair) # StoredTheta(proc[q].req.pair)

----------------------------------------------------------------------------
(* Properties of item_information (SpecInformation)                        *)

\* A direct call of item_information has returned.
Informed == proc[Tester].pc = "informed"

\* P of the call's item at the call's theta
InformedP ==
    irt_prob(proc[Tester].req.item.ParamA, proc[Tester].req.item.ParamB,
             proc[Tester].req.item.ParamC, proc[Tester].req.theta)

\* C20: item_information is never negative, and it is exactly 0 whenever
\* P <= 0, P >= 1 or c = 1, for every a, b and theta, also far from b.
C20_InformationNonNegative ==
    Informed
    => /\ proc[Tester].final >= 0
       /\ (InformedP <= 0 \/ InformedP >= Scale \/ proc[Tester].req.item.ParamC = Scale)
          => proc[Tester].final = 0

\* C20 witness: theta far above b saturated P at 1 for an item with a > 0
\* and c < 1, and the information returned is 0.
C20_Witness ==
    /\ Informed
    /\ proc[Tester].req.item.ParamA > 0
    /\ proc[Tester].req.item.ParamC < Scale
    /\ proc[Tester].req.theta > ThetaMax
    /\ InformedP >= Scale
    /\ proc[Tester].final = 0

----------------------------------------------------------------------------
(* Properties of the steps of next_question (Spec)                         *)

\* Handler p, its ability loaded, finishes a next_question call in this step.
NsFinishes(p) == proc[p].pc = "ns_step" /\ proc'[p].pc = "done"

\* Every eligible item of the call's assignment is named as answered.
AllAnswered(p) == EligibleIds(proc[p].req.aid) \subseteq Range(proc[p].req.answered)

\* The step returns the completion: a successful result without an item,
\* whose theta is the estimate after scoring the last response when one was
\* supplied, and the theta in force otherwise.
ReturnsCompletion(p) ==
    /\ proc'[p].resp.status = 200
    /\ proc'[p].resp.kind = "completed"
    /\ proc'[p].resp.qid = 0
    /\ proc'[p].resp.theta \in {ThetaAtSelection(p, search) : search \in SearchOutcomes}
    /\ (proc[p].req.responses # <<>> /\ proc[p].req.answered # <<>>)
       => /\ Len(CAT_Logs') = Len(CAT_Logs) + 1
          /\ proc'[p].resp.theta = CAT_Logs'[Len(CAT_Logs')].ThetaAfter

HasRow(pair) == \E i \in 1..Len(UserAbilities) : UserAbilities[i].Pair = pair

\* C22: a next_question call that finds no row of its pair inserts exactly
\* one row with theta 0.0 and goes on with 0.0 as the loaded theta; a call for
\* a pair that has a row inserts none, in the read, in the insert or later;
\* no pair ever has two rows.
C22_FirstContactCreatesRow ==
    /\ [](\A pair \in Pairs :
            Cardinality({i \in 1..Len(UserAbilities) : UserAbilities[i].Pair = pair}) <= 1)
    /\ [][\A p \in Procs :
             (proc'[p] # proc[p] /\ proc'[p].req.op = "next")
             => /\ proc[p].pc = "ns_read"
                   => /\ UNCHANGED UserAbilities
                      /\ IF HasRow(proc[p].req.pair)
                         THEN /\ proc'[p].pc = "ns_step"
                              /\ proc'[p].cur = StoredTheta(proc[p].req.pair)
                         ELSE /\ proc'[p].pc = "ns_insert"
                              /\ proc'[p].cur = 0
                /\ proc[p].pc = "ns_insert"
                   => IF HasRow(proc[p].req.pair)
                      THEN UNCHANGED UserAbilities
                      ELSE /\ UserAbilities' =
                                 Append(UserAbilities, [Pair |-> proc[p].req.pair, Theta |-> 0])
                           /\ proc'[p].pc = "ns_step"
                           /\ proc'[p].cur = 0
                /\ proc[p].pc \in {"idle", "ns_step"} => UNCHANGED UserAbilities]_vars

\* C22 witness: two next_question calls for one pair were both answered, the
\* first having created the pair's only row and the second having found it.
C22_Witness ==
    \E p, q \in Procs :
        /\ p # q
        /\ Answered(p) /\ proc[p].req.op = "next"
        /\ Answered(q) /\ proc[q].req.op = "next"
        /\ proc[p].req.pair = proc[q].req.pair
        /\ Cardinality({i \in 1..Len(UserAbilities) :
                           UserAbilities[i].Pair = proc[p].req.pair}) = 1
        /\ StoredTheta(proc[p].req.pair) = 0

\* The step scores a response: last_response and answered_questions are
\* both non-empty.
Scores(p) == proc[p].req.responses # <<>> /\ proc[p].req.answered # <<>>

\* The step's theta comes from the prior given: the returned theta is the
\* prior itself, or the estimate made from it when a response is scored, in
\* which case the log row's ThetaBefore is the prior; the item returned is
\* one the selection can draw at the returned theta.
StepsFrom(p, prior) ==
    /\ proc'[p].resp.theta \in
          (IF Scores(p)
           THEN LET df == LoadQuestions(McqQuestions, proc[p].req.aid)
                IN {estimate_theta(df, Administered(AllIds(df), proc[p].req.answered),
                                   <<proc[p].req.responses[Len(proc[p].req.responses)]>>,
                                   prior, search)[1] : search \in SearchOutcomes}
           ELSE {prior})
    /\ Scores(p)
       => /\ Len(CAT_Logs') = Len(CAT_Logs) + 1
          /\ CAT_Logs'[Len(CAT_Logs')].ThetaBefore = prior
          /\ CAT_Logs'[Len(CAT_Logs')].ThetaAfter = proc'[p].resp.theta
    /\ proc'[p].resp.kind = "next"
       => proc'[p].resp.qid \in
             {PoolOf(p)[i].Id : i \in TopKChoices(PoolOf(p), proc'[p].resp.theta)}

\* C23: a current_theta sent by the client replaces the loaded theta as the
\* prior of the step's estimation and selection and is not written to
\* UserAbilities; a call without it reads the stored theta and starts from it.
C23_ClientThetaForThisStepOnly ==
    [][\A p \in Procs :
          /\ NsFinishes(p) => UNCHANGED UserAbilities
          /\ (NsFinishes(p) /\ proc'[p].resp.status = 200)
             => IF proc[p].req.ctheta # <<>>
                THEN StepsFrom(p, proc[p].req.ctheta[1])
                ELSE StepsFrom(p, proc[p].cur)
          /\ (proc[p].pc = "ns_read" /\ proc'[p] # proc[p])
             => proc'[p].cur = StoredTheta(proc[p].req.pair)]_vars

\* C23 witness: one call was answered from the client's theta 10.0, another
\* call for the pair, without a client theta and with nothing to score, was
\* answered from the stored theta, and the stored theta is not 10.0.
C23_Witness ==
    \E p, q \in Procs :
        /\ p # q
        /\ Answered(p) /\ proc[p].req.op = "next"
        /\ proc[p].req.ctheta = <<10000>>
        /\ proc[p].req.responses = <<>>
        /\ proc[p].resp.theta = 10000
        /\ Answered(q) /\ proc[q].req.op = "next"
        /\ proc[q].req.pair = proc[p].req.pair
        /\ proc[q].req.ctheta = <<>>
        /\ proc[q].req.responses = <<>>
        /\ proc[q].resp.theta = StoredTheta(proc[q].req.pair)

\* The theta in force before the step's estimation.
PriorOf(p) == IF proc[p].req.ctheta # <<>> THEN proc[p].req.ctheta[1] ELSE proc[p].cur

\* The step appends exactly one log entry: the last answered id, the last
\* element of last_response, the theta in force before the estimation and the
\* estimator's result; the theta it returns is that result.
AppendsOneEntry(p) ==
    /\ Len(CAT_Logs') = Len(CAT_Logs) + 1
    /\ SubSeq(CAT_Logs', 1, Len(CAT_Logs)) = CAT_Logs
    /\ LET entry == CAT_Logs'[Len(CAT_Logs')]
           df == LoadQuestions(McqQuestions, proc[p].req.aid)
       IN /\ entry.Pair = proc[p].req.pair
          /\ entry.AssignmentId = proc[p].req.aid
          /\ entry.QuestionId = proc[p].req.answered[Len(proc[p].req.answered)]
          /\ entry.Response = proc[p].req.responses[Len(proc[p].req.responses)]
          /\ entry.ThetaBefore = PriorOf(p)
          /\ entry.ThetaAfter \in
                {estimate_theta(df, Administered(AllIds(df), proc[p].req.answered),
                                <<proc[p].req.responses[Len(proc[p].req.responses)]>>,
                                PriorOf(p), search)[1] : search \in SearchOutcomes}
          /\ proc'[p].resp.status = 200
          /\ proc'[p].resp.theta = entry.ThetaAfter

\* The step appends no log entry, and a theta it returns is the prior.
AppendsNoEntry(p) ==
    /\ CAT_Logs' = CAT_Logs
    /\ proc'[p].resp.status = 200 => proc'[p].resp.theta = PriorOf(p)

----------------------------------------------------------------------------
(* Properties of the tables under concurrent requests (Spec)               *)

\* C26: CAT_Logs is append-only: every step leaves the rows it held as a
\* prefix of the rows it holds afterwards, so the log of each earlier state
\* is a prefix of the log of each later one.
C26_LogsAppendOnly ==
    [][/\ Len(CAT_Logs') >= Len(CAT_Logs)
       /\ SubSeq(CAT_Logs', 1, Len(CAT_Logs)) = CAT_Logs]_vars

\* C26 witness: two calls have each appended an entry, and the two entries differ.
C26_Witness ==
    /\ Len(CAT_Logs) = 2
    /\ CAT_Logs[1] # CAT_Logs[2]
    /\ \A p \in Procs : Answered(p) /\ proc[p].req.op = "next"

\* The attempt (examinee, course, assignment) of a CAT_Results row
AttemptOf(row) == <<row.Pair, row.AssignmentId>>

\* C27: CAT_Results holds at most one row per attempt.
C27_OneResultPerAttempt ==
    \A i \in 1..Len(CAT_Results), j \in 1..Len(CAT_Results) :
        AttemptOf(CAT_Results[i]) = AttemptOf(CAT_Results[j]) => i = j

\* The step is one of a next_question handler.
NextQuestionStep(p) == proc'[p] # proc[p] /\ proc'[p].req.op = "next"

\* The step is the committing write of a submit_assignment handler.
SubmitCommit(p) ==
    /\ proc[p].req.op = "submit"
    /\ proc[p].pc \in {"sb_write", "sb_insert"}
    /\ proc'[p].pc = "done"
    /\ proc'[p].resp.status = 200

\* C28: no step of next_question changes the theta of a row that exists; a
\* step that changes one is the commit of a submission for the row's pair.
C28_NextKeepsStoredTheta ==
    [][/\ \A p \in Procs :
            NextQuestionStep(p)
            => /\ Len(UserAbilities') >= Len(UserAbilities)
               /\ SubSeq(UserAbilities', 1, Len(UserAbilities)) = UserAbilities
       /\ \A i \in 1..Len(UserAbilities) :
            (i > Len(UserAbilities') \/ UserAbilities'[i] # UserAbilities[i])
            => \E p \in Procs :
                  SubmitCommit(p) /\ proc[p].req.pair = UserAbilities[i].Pair]_vars

\* C28 witness: a call with a response read a row whose theta a submission
\* had moved away from 0.0, scored from it to another theta, and the row still
\* holds the theta the call read.
C28_Witness ==
    \E p \in Procs :
        /\ Answered(p) /\ proc[p].req.op = "next"
        /\ proc[p].req.ctheta = <<>>
        /\ Scores(p)
        /\ HasRow(proc[p].req.pair)
        /\ StoredTheta(proc[p].req.pair) # 0
        /\ proc[p].resp.theta # StoredTheta(proc[p].req.pair)
        /\ Len(CAT_Logs) = 1
        /\ CAT_Logs[1].ThetaBefore = StoredTheta(proc[p].req.pair)
        /\ CAT_Logs[1].ThetaAfter = proc[p].resp.theta

\* The submissions answered with success
AcceptedSubmits == {p \in Procs : Submitted(p) /\ proc[p].resp.status = 200}

\* The write of the submission fails: its INSERT into UserAbilities is rejected.
SubmitWriteFails(p) ==
    /\ proc[p].req.op = "submit"
    /\ proc[p].pc = "sb_insert"
    /\ proc'[p].pc = "done"
    /\ HasRow(proc[p].req.pair)

\* C29: the CAT_Results insert and the UserAbilities update-or-insert of a
\* submission take effect together or not at all: the rows of CAT_Results are
\* those of the submissions answered with success; a step that adds a result
\* row also writes the ability row; and a submission whose ability write is
\* rejected leaves both tables as they were and answers with an error.
C29_SubmitWritesAtomically ==
    /\ [](Len(CAT_Results) = Cardinality(AcceptedSubmits))
    /\ [][/\ CAT_Results' # CAT_Results
             => \E p \in Procs :
                   /\ SubmitCommit(p)
                   /\ Len(CAT_Results') = Len(CAT_Results) + 1
                   /\ \E i \in 1..Len(UserAbilities') :
                         UserAbilities'[i] =
                            [Pair |-> proc[p].req.pair, Theta |-> proc'[p].resp.updated]
          /\ \A p \in Procs :
                SubmitWriteFails(p)
                => /\ CAT_Results' = CAT_Results
                   /\ UserAbilities' = UserAbilities
                   /\ proc'[p].resp.kind = "error"
                   /\ proc'[p].resp.status = 500]_vars

\* C29 witness: of two submissions racing for the pair's first row, one was
\* answered with success and the other with an error, and CAT_Results holds
\* the one row of the first.
C29_Witness ==
    \E p \in Procs, q \in Procs :
        /\ Submitted(p) /\ proc[p].resp.status = 500
        /\ Submitted(q) /\ proc[q].resp.status = 200
        /\ Len(CAT_Results) = 1
        /\ CAT_Results[1].FinalTheta = proc[q].resp.theta
        /\ Len(UserAbilities) = 1
        /\ UserAbilities[1].Theta = proc[q].resp.updated

\* The (question id, response) pairs of the request whose id is eligible
EligiblePairs(req) ==
    SelectSeq([i \in 1..Min(Len(req.answered), Len(req.responses)) |->
                  <<req.answered[i], req.responses[i]>>],
              LAMBDA pr : pr[1] \in EligibleIds(req.aid))

\* No id the request supplies is eligible.
NoMatch(req) == \A i \in 1..Len(req.answered) : req.answered[i] \notin EligibleIds(req.aid)

\* A submission arrives that passes the validation of its lists.
SubmitArrives(p) ==
    /\ proc[p].pc = "idle"
    /\ proc'[p].req.op = "submit"
    /\ ~ SubmitRejected(proc'[p].req.answered, proc'[p].req.responses)

\* The estimation of the submission uses the eligible pairs only, from the
\* stored theta; with no eligible pair it is the stored theta less 0.3, clipped.
EstimatesFromEligible(p) ==
    LET req == proc[p].req
        pairs == EligiblePairs(req)
        df == LoadQuestions(McqQuestions, req.aid)
        stored == StoredTheta(req.pair)
    IN /\ proc'[p].pc = "sb_write"
       /\ proc'[p].cur = stored
       /\ proc'[p].final \in
             {estimate_theta(df, [i \in 1..Len(pairs) |-> IndexOf(AllIds(df), pairs[i][1])],
                             [i \in 1..Len(pairs) |-> pairs[i][2]], stored, search)[1] :
                search \in SearchOutcomes}
       /\ pairs = <<>> => proc'[p].final = clip(stored - 300, -4000, 4000)

\* The committed submission counts the eligible pairs only, returns and
\* persists the estimate, and leaves the stored ability smoothed toward it.
CountsEligible(p) ==
    LET req == proc[p].req
        pairs == EligiblePairs(req)
        row == CAT_Results'[Len(CAT_Results')]
        new_theta == Smooth(proc[p].cur, proc[p].final, AlphaOf(req))
    IN /\ proc'[p].resp.total = Len(pairs)
       /\ proc'[p].resp.correct = Cardinality({i \in 1..Len(pairs) : pairs[i][2] = 1})
       /\ proc'[p].resp.theta = proc[p].final
       /\ proc'[p].resp.updated = new_theta
       /\ row.TotalQuestions = Len(pairs)
       /\ row.CorrectCount = Cardinality({i \in 1..Len(pairs) : pairs[i][2] = 1})
       /\ row.FinalTheta = proc[p].final
       /\ \E i \in 1..Len(UserAbilities') :
             UserAbilities'[i] = [Pair |-> req.pair, Theta |-> new_theta]

----------------------------------------------------------------------------
(* Properties of submit_assignment served alone (SpecSerial)               *)

\* The table with the pair's row rewritten in place to theta t.
RewrittenInPlace(tab, pair, t) ==
    [i \in 1..Len(tab) |-> IF tab[i].Pair = pair THEN [Pair |-> pair, Theta |-> t] ELSE tab[i]]

\* The rows of the pair in the table
RowsOf(tab, pair) == {i \in 1..Len(tab) : tab[i].Pair = pair}

\* C25: an accepted submission served without concurrent requests updates
\* the pair's ability row in place when one exists and inserts a row holding
\* the new ability when none exists; afterwards the pair has exactly one row.
C25_SerialSubmitUpserts ==
    [][\A p \in Procs :
          LET pair == proc[p].req.pair
              newAbility == Smooth(proc[p].cur, proc[p].final, AlphaOf(proc[p].req))
          IN /\ (proc[p].pc = "sb_write" /\ proc'[p] # proc[p])
                => IF HasRow(pair)
                   THEN /\ proc'[p].pc = "done"
                        /\ proc'[p].resp.status = 200
                        /\ proc'[p].resp.updated = newAbility
                        /\ UserAbilities' = RewrittenInPlace(UserAbilities, pair, newAbility)
                        /\ Cardinality(RowsOf(UserAbilities', pair)) = 1
                   ELSE /\ proc'[p].pc = "sb_insert"
                        /\ UserAbilities' = UserAbilities
             /\ (proc[p].pc = "sb_insert" /\ proc'[p] # proc[p])
                => /\ ~HasRow(pair)
                   /\ proc'[p].pc = "done"
                   /\ proc'[p].resp.status = 200
                   /\ proc'[p].resp.updated = newAbility
                   /\ UserAbilities' =
                        Append(UserAbilities, [Pair |-> pair, Theta |-> newAbility])
                   /\ Cardinality(RowsOf(UserAbilities', pair)) = 1]_vars

\* C25 witness: two submissions for one pair were accepted one after the
\* other; the first inserted the row, the second read that row's theta and
\* rewrote it, and the pair has the one row with the second's new ability.
C25_Witness ==
    \E p \in Procs, q \in Procs :
        /\ p # q
        /\ Submitted(p) /\ Submitted(q)
        /\ proc[p].req.pair = proc[q].req.pair
        /\ Len(CAT_Results) = 2
        /\ proc[p].cur = 0
        /\ proc[q].cur = proc[p].resp.updated
        /\ proc[q].resp.updated # proc[p].resp.updated
        /\ Cardinality(RowsOf(UserAbilities, proc[q].req.pair)) = 1
        /\ \A i \in RowsOf(UserAbilities, proc[q].req.pair) :
              UserAbilities[i].Theta = proc[q].resp.updated

====
